---- MODULE Spec2Model ----
(***************************************************************************)
(* Model of the protected-resource port/process manager of                 *)
(* mac-resource-mcp-server: MacResourceManager (the full manager with the  *)
(* protection policy and the session store), SessionManager, and the       *)
(* MacResourceManager of src/src/resource-manager.ts, the module that      *)
(* src/src/index.ts imports.                                               *)
(*                                                                         *)
(* The operating system (lsof, kill, pkill, the file system, the clock) is *)
(* an external collaborator: every answer it gives to a handler is an      *)
(* input of that handler's action, drawn from a small set.                 *)
(*                                                                         *)
(* Text is modelled as a sequence of one-character strings, so that        *)
(* toLowerCase and includes are computed, not assumed.                     *)
(***************************************************************************)
EXTENDS Integers, Sequences, FiniteSets, TLC

VARIABLES
    sessionData,   \* SessionManager.sessionData, the in-memory document
    file,          \* the session file ~/.mac-resource-mcp/session.json
    loadpc,        \* position of the constructor's un-awaited loadSession()
    loadbuf,       \* what that loadSession() read from the file
    now,           \* Date.now()
    call,          \* the last completed operation: name, arguments, pre-state
    result,        \* the ToolResult it returned
    oslog          \* the OS commands it issued, in order

vars == <<sessionData, file, loadpc, loadbuf, now, call, result, oslog>>

----------------------------------------------------------------------------
(* Bounds of the model *)

MaxLines == 3          \* data lines in one lsof listing
MaxCustom == 2         \* custom protected ports held at once
MaxProjects == 2       \* registered projects held at once
MaxDays == 1           \* days the clock can advance across restarts
MonitorHorizon == 310000   \* latest endTime, in ms, of a monitorPort call

----------------------------------------------------------------------------
(* Text *)

UPPER == <<"A","B","C","D","E","F","G","H","I","J","K","L","M",
           "N","O","P","Q","R","S","T","U","V","W","X","Y","Z">>
LOWER == <<"a","b","c","d","e","f","g","h","i","j","k","l","m",
           "n","o","p","q","r","s","t","u","v","w","x","y","z">>

\* String.prototype.toLowerCase, one character
toLowerChar(c) ==
    IF \E i \in 1..Len(UPPER) : UPPER[i] = c
    THEN LOWER[CHOOSE i \in 1..Len(UPPER) : UPPER[i] = c]
    ELSE c

\* String.prototype.toLowerCase
toLowerCase(s) == [i \in 1..Len(s) |-> toLowerChar(s[i])]

\* String.prototype.includes
includes(s, pat) ==
    \E i \in 0..(Len(s) - Len(pat)) : SubSeq(s, i + 1, i + Len(pat)) = pat

\* Array.prototype.join(' ') of an array of strings
RECURSIVE join(_)
join(parts) ==
    IF Len(parts) = 0 THEN <<>>
    ELSE IF Len(parts) = 1 THEN parts[1]
    ELSE parts[1] \o <<" ">> \o join(Tail(parts))

DIGITS == <<"0","1","2","3","4","5","6","7","8","9">>
isDigit(c) == \E i \in 1..Len(DIGITS) : DIGITS[i] = c
digitValue(c) == (CHOOSE i \in 1..Len(DIGITS) : DIGITS[i] = c) - 1

\* parseInt yields NaN when the text has no leading digit
NaN == -1

\* parseInt(text): the number written by the leading digits of text
RECURSIVE parseDigits(_, _)
parseDigits(s, acc) ==
    IF Len(s) = 0 \/ ~isDigit(s[1]) THEN acc
    ELSE parseDigits(Tail(s), acc * 10 + digitValue(s[1]))

parseInt(s) == IF Len(s) = 0 \/ ~isDigit(s[1]) THEN NaN ELSE parseDigits(s, 0)

\* the elements of a sequence
Range(s) == {s[i] : i \in 1..Len(s)}

\* [...new Set(array)]: first occurrences, in order
RECURSIVE uniq(_)
uniq(s) ==
    IF Len(s) = 0 THEN <<>>
    ELSE LET front == uniq(SubSeq(s, 1, Len(s) - 1))
             x == s[Len(s)]
         IN IF x \in Range(front) THEN front ELSE Append(front, x)

----------------------------------------------------------------------------
(* The static tables of MacResourceManager *)

COMMON_DEV_PORTS == <<3000, 3001, 4321, 5173, 8000, 8080, 8100, 9000>>

BUILTIN_PORTS == {3306, 5432, 6379, 27017, 2375, 2376, 2377, 22, 80, 443, 25,
                  53, 1433, 5984, 9200, 8086, 5672, 9092}

PROTECTED_PORTS == [p \in BUILTIN_PORTS |->
    CASE p = 3306  -> "MySQL"
      [] p = 5432  -> "PostgreSQL"
      [] p = 6379  -> "Redis"
      [] p = 27017 -> "MongoDB"
      [] p = 2375  -> "Docker daemon (unsecured)"
      [] p = 2376  -> "Docker daemon (secured)"
      [] p = 2377  -> "Docker Swarm"
      [] p = 22    -> "SSH"
      [] p = 80    -> "HTTP"
      [] p = 443   -> "HTTPS"
      [] p = 25    -> "SMTP"
      [] p = 53    -> "DNS"
      [] p = 1433  -> "SQL Server"
      [] p = 5984  -> "CouchDB"
      [] p = 9200  -> "Elasticsearch"
      [] p = 8086  -> "InfluxDB"
      [] p = 5672  -> "RabbitMQ"
      [] p = 9092  -> "Kafka"]

PROTECTED_PROCESS_PATTERNS == <<
    <<"d","o","c","k","e","r">>,
    <<"d","o","c","k","e","r","d">>,
    <<"m","y","s","q","l">>,
    <<"m","y","s","q","l","d">>,
    <<"p","o","s","t","g","r","e","s">>,
    <<"r","e","d","i","s","-","s","e","r","v","e","r">>,
    <<"m","o","n","g","o","d">>,
    <<"e","l","a","s","t","i","c","s","e","a","r","c","h">>,
    <<"r","a","b","b","i","t","m","q">>,
    <<"k","a","f","k","a">> >>

----------------------------------------------------------------------------
(* What the operating system answers *)

\* one whitespace-separated field of an lsof line that the code never reads
FILL == <<"x">>

\* the header line of `lsof -i` (parseProcessInfo drops the first line unread)
HEADER == << <<"C","O","M","M","A","N","D">>, <<"P","I","D">> >>

\* node 101 ... *:3000 (LISTEN)
LINE_node ==
    << <<"n","o","d","e">>, <<"1","0","1">>, FILL, FILL, FILL, FILL, FILL, FILL,
       <<"*",":","3","0","0","0">>, <<"(","L","I","S","T","E","N",")">> >>

\* MySQLd 202 ... *:3000 (LISTEN): a protected pattern in the name, mixed case
LINE_MySQLd ==
    << <<"M","y","S","Q","L","d">>, <<"2","0","2">>, FILL, FILL, FILL, FILL, FILL,
       FILL, <<"*",":","3","0","0","0">>, <<"(","L","I","S","T","E","N",")">> >>

\* java 303 ... Kafka:9092: a protected pattern in the ninth field only
LINE_java ==
    << <<"j","a","v","a">>, <<"3","0","3">>, FILL, FILL, FILL, FILL, FILL, FILL,
       <<"K","a","f","k","a",":","9","0","9","2">> >>

\* Docker 404: a short line, whose command falls back to the process name
LINE_short == << <<"D","o","c","k","e","r">>, <<"4","0","4">> >>

\* mysqld abc: a line whose second field is no number
LINE_nopid == << <<"m","y","s","q","l","d">>, <<"a","b","c">> >>

LINES == {LINE_node, LINE_MySQLd, LINE_java, LINE_short, LINE_nopid}

\* the sequences over S of length at most n
RECURSIVE SeqsUpTo(_, _)
SeqsUpTo(S, n) ==
    IF n = 0 THEN {<<>>}
    ELSE LET shorter == SeqsUpTo(S, n - 1)
         IN shorter \cup {Append(q, x) : q \in shorter, x \in S}

\* stdout of `lsof -i :port -P -n`, split into lines and fields: nothing, or
\* the header followed by data lines
Stdouts(n) == {<<>>} \cup {<<HEADER>> \o q : q \in SeqsUpTo(LINES, n) \ {<<>>}}

\* a command that exits non-zero makes execAsync throw; the Error's message may
\* or may not contain 'No such process'
ExecFailed(b) == [ok |-> FALSE, noSuchProcess |-> b, stdout |-> <<>>]

\* `lsof -i :port -P -n` in the handlers: what it can answer, by name
LsofKeys == {"throws", "empty", "node", "node+MySQLd", "java"}

lsofAnswer(key) ==
    CASE key = "throws" -> ExecFailed(FALSE)
      [] key = "throws: No such process" -> ExecFailed(TRUE)
      [] key = "empty" -> [ok |-> TRUE, noSuchProcess |-> FALSE, stdout |-> <<>>]
      [] key = "node" ->
            [ok |-> TRUE, noSuchProcess |-> FALSE, stdout |-> <<HEADER, LINE_node>>]
      [] key = "node+MySQLd" ->
            [ok |-> TRUE, noSuchProcess |-> FALSE,
             stdout |-> <<HEADER, LINE_node, LINE_MySQLd>>]
      [] key = "java" ->
            [ok |-> TRUE, noSuchProcess |-> FALSE, stdout |-> <<HEADER, LINE_java>>]
      [] key = "nopid" ->
            [ok |-> TRUE, noSuchProcess |-> FALSE, stdout |-> <<HEADER, LINE_nopid>>]

\* `lsof -ti :port`: it throws (lsof exits 1 when it finds nothing), or prints
\* PIDs, one per line
NoPids == [ok |-> FALSE, pids |-> <<>>]
PidAnswers == {NoPids} \cup {[ok |-> TRUE, pids |-> q] : q \in {<<>>, <<101>>, <<101, 202>>}}

\* an entry of the log of OS commands
Lsof(cmd, port) ==
    [pids |-> <<>>, cmd |-> cmd, port |-> port, signal |-> "", pattern |-> ""]
Kill(signal, pids, port) ==
    [pids |-> pids, cmd |-> "kill", port |-> port, signal |-> signal, pattern |-> ""]
\* `pkill -f "pattern"`: pkill's default signal, to every process whose command
\* line matches
Pkill(pattern) ==
    [pids |-> <<>>, cmd |-> "pkill", port |-> 0, signal |-> "TERM", pattern |-> pattern]

----------------------------------------------------------------------------
(* Protection Policy Engine *)

\* MacResourceManager.parseProcessInfo
parseLine(line) ==
    LET processName == line[1]
        rest == SubSeq(line, 9, Len(line))
        joined == join(rest)
    IN [processName |-> processName,
        pid |-> parseInt(line[2]),
        command |-> IF joined = <<>> THEN processName ELSE joined]

parseProcessInfo(lines) ==
    LET dataLines == SubSeq(lines, 2, Len(lines))
        kept == SelectSeq(dataLines,
                          LAMBDA l : Len(l) >= 2 /\ parseInt(l[2]) # NaN)
    IN [i \in 1..Len(kept) |-> parseLine(kept[i])]

\* the pattern test without toLowerCase
matchesPattern_caseSensitive(info) ==
    \E k \in 1..Len(PROTECTED_PROCESS_PATTERNS) :
        \/ includes(info.processName, PROTECTED_PROCESS_PATTERNS[k])
        \/ includes(info.command, PROTECTED_PROCESS_PATTERNS[k])

\* the pattern test on the process name alone
matchesPattern_nameOnly(info) ==
    \E k \in 1..Len(PROTECTED_PROCESS_PATTERNS) :
        includes(toLowerCase(info.processName), PROTECTED_PROCESS_PATTERNS[k])

\* the inner loop of checkForCriticalProcesses: does some pattern occur in the
\* lowercased name or the lowercased command
matchesPattern(info) ==
    \E k \in 1..Len(PROTECTED_PROCESS_PATTERNS) :
        \/ includes(toLowerCase(info.processName), PROTECTED_PROCESS_PATTERNS[k])
        \/ includes(toLowerCase(info.command), PROTECTED_PROCESS_PATTERNS[k])

\* MacResourceManager.checkForCriticalProcesses, given what its lsof query gave
checkForCriticalProcesses(q) ==
    IF ~q.ok THEN [hasCritical |-> FALSE, services |-> <<>>]
    ELSE LET processInfo == parseProcessInfo(q.stdout)
             critical == SelectSeq(processInfo, matchesPattern)
             criticalServices == [i \in 1..Len(critical) |-> critical[i].processName]
         IN [hasCritical |-> Len(criticalServices) > 0,
             services |-> uniq(criticalServices)]

----------------------------------------------------------------------------
(* Persistent State Store: SessionManager *)

DAY_MS == 86400000

EmptyMap == [p \in {} |-> ""]

\* the document the SessionManager constructor builds
EmptySession(t) ==
    [activeProjects |-> <<>>,
     protectedPorts |-> <<>>,
     lastActivity |-> t,
     customProtectedServices |-> EmptyMap]

\* outcomes of saveSession's two file-system calls
SaveOutcomes == {"ok", "mkdir-failed", "write-failed"}

\* saveSession without its catch block
saveSessionThrows_propagates(outcome) == outcome # "ok"

\* does saveSession throw to its caller: its catch block logs every failure
saveSessionThrows(outcome) == FALSE

\* SessionManager.saveSession: the document after it, and the file after it.
\* Neither failure leaves the try block; lastActivity is set between the calls.
savedDoc(sd, outcome, t) ==
    IF outcome = "mkdir-failed" THEN sd ELSE [sd EXCEPT !.lastActivity = t]

savedFile(sd, outcome, t, old) ==
    IF outcome = "ok"
    THEN [kind |-> "json", doc |-> savedDoc(sd, outcome, t)]
    ELSE old

\* addProtectedPort without the includes() test: the port is pushed every time
addProtectedPort_push(sd, port, service) ==
    LET m == sd.customProtectedServices
    IN [sd EXCEPT
          !.protectedPorts = Append(sd.protectedPorts, port),
          !.customProtectedServices =
              [p \in DOMAIN m \cup {port} |-> IF p = port THEN service ELSE m[p]]]

\* SessionManager.addProtectedPort, before its saveSession
addProtectedPort(sd, port, service) ==
    LET ports == IF port \in Range(sd.protectedPorts)
                 THEN sd.protectedPorts
                 ELSE Append(sd.protectedPorts, port)
        m == sd.customProtectedServices
    IN [sd EXCEPT
          !.protectedPorts = ports,
          !.customProtectedServices =
              [p \in DOMAIN m \cup {port} |-> IF p = port THEN service ELSE m[p]]]

\* removeProtectedPort without the delete: the label stays behind
removeProtectedPort_keepLabel(sd, port) ==
    [sd EXCEPT !.protectedPorts = SelectSeq(sd.protectedPorts, LAMBDA p : p # port)]

\* SessionManager.removeProtectedPort, before its saveSession
removeProtectedPort(sd, port) ==
    LET m == sd.customProtectedServices
    IN [sd EXCEPT
          !.protectedPorts = SelectSeq(sd.protectedPorts, LAMBDA p : p # port),
          !.customProtectedServices = [p \in DOMAIN m \ {port} |-> m[p]]]

\* addProject looking for the entry of the same name
addProject_byName(sd, name, directory, ports, framework, t) ==
    LET projectInfo == [ports |-> ports, name |-> name, directory |-> directory,
                        framework |-> framework, lastActive |-> t]
        projects == sd.activeProjects
        existing == {i \in 1..Len(projects) : projects[i].name = name}
    IN IF existing # {}
       THEN LET existingIndex == CHOOSE i \in existing : \A j \in existing : i <= j
            IN [sd EXCEPT !.activeProjects[existingIndex] = projectInfo]
       ELSE [sd EXCEPT !.activeProjects = Append(projects, projectInfo)]

\* SessionManager.addProject, before its saveSession: the entry of the same
\* directory is replaced in place, a new directory is pushed
addProject(sd, name, directory, ports, framework, t) ==
    LET projectInfo == [ports |-> ports, name |-> name, directory |-> directory,
                        framework |-> framework, lastActive |-> t]
        projects == sd.activeProjects
        existing == {i \in 1..Len(projects) : projects[i].directory = directory}
    IN IF existing # {}
       THEN LET existingIndex == CHOOSE i \in existing : \A j \in existing : i <= j
            IN [sd EXCEPT !.activeProjects[existingIndex] = projectInfo]
       ELSE [sd EXCEPT !.activeProjects = Append(projects, projectInfo)]

\* SessionManager.getProtectedPorts
getProtectedPorts(sd) == sd.protectedPorts

\* SessionManager.getActiveProjects
getActiveProjects(sd) == sd.activeProjects

\* is the array an accessor returns the store's own array: getActiveProjects
\* returns this.sessionData.activeProjects, getProtectedPorts returns
\* [...this.sessionData.protectedPorts]
returnsInternal(accessor) == accessor = "getActiveProjects"

----------------------------------------------------------------------------
(* Resource Manager: validation and the port axis of the policy *)

\* a port argument as the dispatcher passes it: any number. isInteger is
\* Number.isInteger(port); value is the number (its integer part if it has a
\* fraction)
PortArg(n) == [isInteger |-> TRUE, value |-> n]
Fraction(n) == [isInteger |-> FALSE, value |-> n]

\* validatePort with the lower limit off by one: port 0 passes
validatePort_zero(port) ==
    ~(~port.isInteger \/ port.value < 0 \/ port.value > 65535)

\* MacResourceManager.validatePort: TRUE when it does not throw
validatePort(port) ==
    ~(~port.isInteger \/ port.value < 1 \/ port.value > 65535)

\* isProtectedPort consulting the built-in table only
isProtectedPort_builtinOnly(sd, port) == port \in DOMAIN PROTECTED_PORTS

\* isProtectedPort consulting the session's list only
isProtectedPort_customOnly(sd, port) == port \in Range(getProtectedPorts(sd))

\* MacResourceManager.isProtectedPort
isProtectedPort(sd, port) ==
    port \in DOMAIN PROTECTED_PORTS \/ port \in Range(getProtectedPorts(sd))

\* PROTECTED_PORTS[port] as killPort's refusal prints it
builtinLabel(port) ==
    IF port \in DOMAIN PROTECTED_PORTS THEN PROTECTED_PORTS[port] ELSE "undefined"

----------------------------------------------------------------------------
(* Resource Manager: killPort *)

\* a ToolResult: isError, and what its text says
Result(isError, kind) ==
    [lines |-> <<>>, services |-> <<>>, kind |-> kind, ports |-> <<>>,
     isError |-> isError, label |-> "", perPid |-> <<>>, freed |-> FALSE,
     killedCount |-> 0, warnings |-> 0, statuses |-> <<>>, running |-> <<>>]

\* one way a handler can run: what it returned, the OS commands it issued, and
\* the name of the answer to its classification query ("none": not asked)
Run(res, log, classq) ==
    [result |-> res, oslog |-> log, pids |-> <<>>, classq |-> classq,
     requery |-> NoPids]

\* killPort's signal, always the graceful one
signalOf_term(force) == "TERM"

\* const signal = force ? 'KILL' : 'TERM'
signalOf(force) == IF force THEN "KILL" ELSE "TERM"

\* killPort's last `lsof -ti :port`, 1000 ms after the signals: lsof exits 1
\* when it lists nothing, and prints PIDs otherwise
RequeryAnswers == {NoPids, [ok |-> TRUE, pids |-> <<101>>]}

\* the port reported as free whatever the last query answers
reportsFreed_always(requery) == TRUE

\* the port is reported as free when the last query throws
reportsFreed(requery) == ~requery.ok

\* the per-PID loop of killPort and what follows it: one kill per PID, each
\* in its own try block, then one more `lsof -ti`, which throws when the port
\* is free
killLoopRuns(port, force, pids, classq, log) ==
    LET signal == signalOf(force)
        kills == [i \in 1..Len(pids) |-> Kill(signal, <<pids[i]>>, port)]
    IN {[Run([Result(FALSE, "killed") EXCEPT
                 !.perPid = [i \in 1..Len(pids) |-> [ok |-> okv[i], pid |-> pids[i]]],
                 !.freed = reportsFreed(requery)],
             log \o kills \o <<Lsof("lsof -ti", port)>>,
             classq)
           EXCEPT !.pids = pids, !.requery = requery]
        : okv \in [1..Len(pids) -> BOOLEAN], requery \in RequeryAnswers}

\* killPort after validatePort and the protected-port check of the full
\* manager: `lsof -ti`, the classification, the kill loop
killPortQueryRuns(port, force) ==
    LET q1log == <<Lsof("lsof -ti", port)>>
        q2log == q1log \o <<Lsof("lsof -i", port)>>
        afterPids(pidq) ==
            IF ~pidq.ok
            THEN {Run(Result(TRUE, "exec-error"), q1log, "none")}
            ELSE IF pidq.pids = <<>>
            THEN {Run(Result(FALSE, "no-processes"), q1log, "none")}
            ELSE UNION {
                LET processCheck == checkForCriticalProcesses(lsofAnswer(key))
                IN IF processCheck.hasCritical
                   THEN {Run([Result(TRUE, "critical") EXCEPT
                                 !.services = processCheck.services],
                             q2log, key)}
                   ELSE killLoopRuns(port, force, pidq.pids, key, q2log)
                : key \in LsofKeys}
    IN UNION {afterPids(pidq) : pidq \in PidAnswers}

\* MacResourceManager.killPort of the full manager: every way it can run
killPortRuns(sd, port, force) ==
    IF ~validatePort(port)
    THEN {Run(Result(TRUE, "invalid-port"), <<>>, "none")}
    ELSE IF isProtectedPort(sd, port.value)
    THEN {Run([Result(TRUE, "protected") EXCEPT !.label = builtinLabel(port.value)],
              <<>>, "none")}
    ELSE killPortQueryRuns(port.value, force)

\* MacResourceManager.killPort of src/src/resource-manager.ts: every way it
\* can run
killPortRuns_rm(port, force) ==
    IF ~validatePort(port)
    THEN {Run(Result(TRUE, "invalid-port"), <<>>, "none")}
    ELSE LET p == port.value
             q1log == <<Lsof("lsof -ti", p)>>
             afterPids(pidq) ==
                 IF ~pidq.ok
                 THEN {Run(Result(TRUE, "exec-error"), q1log, "none")}
                 ELSE IF pidq.pids = <<>>
                 THEN {Run(Result(FALSE, "no-processes"), q1log, "none")}
                 ELSE killLoopRuns(p, force, pidq.pids, "none", q1log)
         IN UNION {afterPids(pidq) : pidq \in PidAnswers}

----------------------------------------------------------------------------
(* Resource Manager: checkPort and monitorPort *)

\* MacResourceManager.checkPort: every way it can run
checkPortRuns(port) ==
    IF ~validatePort(port)
    THEN {Run(Result(TRUE, "invalid-port"), <<>>, "none")}
    ELSE {LET q == lsofAnswer(key)
              kind == IF ~q.ok
                      THEN IF q.noSuchProcess THEN "available" ELSE "exec-error"
                      ELSE IF q.stdout = <<>> THEN "available" ELSE "in-use"
          IN Run(Result(kind = "exec-error", kind),
                 <<Lsof("lsof -i", port.value)>>, key)
          : key \in LsofKeys \cup {"throws: No such process"}}

POLL_MS == 5000

\* seconds a caller asks monitorPort for
Durations == {5, 15}

\* how late a poll's timer can fire, in ms
MonitorLags == {0, POLL_MS}

\* the status text monitorPort derives from one lsof answer
statusOf(q) ==
    IF ~q.ok \/ q.stdout = <<>>
    THEN [processName |-> <<>>, pid |-> NaN, kind |-> "available"]
    ELSE LET processInfo == parseProcessInfo(q.stdout)
         IN IF Len(processInfo) = 0
            THEN [processName |-> <<>>, pid |-> NaN, kind |-> "in-use"]
            ELSE [processName |-> processInfo[1].processName, pid |-> processInfo[1].pid,
                  kind |-> "in-use"]

\* the test that emits a line on every poll
statusChanged_always(currentStatus, lastStatus) == TRUE

\* currentStatus !== lastStatus
statusChanged(currentStatus, lastStatus) == currentStatus # lastStatus

\* the polling loop of monitorPort, t ms after its start; the run keeps the
\* names of the answers to its polls
RECURSIVE monitorLoopRuns(_, _, _, _, _)
monitorLoopRuns(port, t, endTime, lastStatus, run) ==
    IF ~(t < endTime) THEN {run}
    ELSE UNION {
        LET currentStatus == statusOf(lsofAnswer(key))
            changed == statusChanged(currentStatus, lastStatus)
            emitted == IF changed
                       THEN Append(run.result.lines, currentStatus)
                       ELSE run.result.lines
        IN monitorLoopRuns(port, t + POLL_MS + lag, endTime,
               IF changed THEN currentStatus ELSE lastStatus,
               Run([run.result EXCEPT !.lines = emitted],
                   Append(run.oslog, Lsof("lsof -i", port)),
                   Append(run.classq, key)))
        : key \in {"throws", "node", "java"}, lag \in MonitorLags}

\* MacResourceManager.monitorPort: every way it can run
monitorPortRuns(port, duration) ==
    IF ~validatePort(port)
    THEN {Run(Result(TRUE, "invalid-port"), <<>>, "none")}
    ELSE monitorLoopRuns(port.value, 0, duration * 1000,
             [processName |-> <<>>, pid |-> NaN, kind |-> ""],
             Run(Result(FALSE, "monitored"), <<>>, <<>>))

----------------------------------------------------------------------------
(* Resource Manager: killDevServersSelective *)

\* the development ports that the sweep can find in use; on every other one
\* its first `lsof -i` throws
BusyDevPorts == {3000, 3001}

\* the sweep's test without the port axis
mayClean_patternOnly(sd, port, processCheck) == ~processCheck.hasCritical

\* the test that lets the sweep terminate the processes of a port
mayClean(sd, port, processCheck) ==
    ~processCheck.hasCritical /\ ~isProtectedPort(sd, port)

\* what a loop did on one port: the line it reported ("" when it reported
\* none), the OS commands it issued, and what the OS answered: whether the
\* first query printed something, the name of the classification answer, and
\* whether the kill command succeeded
PortStep(port, kind, services, log, inUse, classq, killOk) ==
    [port |-> port, services |-> services, kind |-> kind, log |-> log,
     classq |-> classq, inUse |-> inUse, killOk |-> killOk]

\* one iteration of the sweep's loop: every way it can run
selectivePortRuns(sd, port) ==
    LET q1 == <<Lsof("lsof -i", port)>>
        q2 == q1 \o <<Lsof("lsof -i", port)>>
        q3 == q2 \o <<Lsof("lsof -ti", port)>>
        free == {PortStep(port, "", <<>>, q1, FALSE, "none", FALSE)}
        clean(key) ==
            UNION {
                IF ~pidq.ok
                THEN {PortStep(port, "could-not-clean", <<>>, q3, TRUE, key, FALSE)}
                ELSE IF pidq.pids = <<>>
                THEN {PortStep(port, "", <<>>, q3, TRUE, key, FALSE)}
                ELSE {PortStep(port, IF ok THEN "cleaned" ELSE "could-not-clean",
                               <<>>, q3 \o <<Kill("TERM", pidq.pids, port)>>,
                               TRUE, key, ok)
                      : ok \in BOOLEAN}
                : pidq \in PidAnswers}
        inUse ==
            UNION {
                LET processCheck == checkForCriticalProcesses(lsofAnswer(key))
                IN IF mayClean(sd, port, processCheck)
                   THEN clean(key)
                   ELSE {PortStep(port, "skipped", processCheck.services, q2,
                                  TRUE, key, FALSE)}
                : key \in LsofKeys}
    IN IF port \in BusyDevPorts THEN free \cup inUse ELSE free

\* the loop over COMMON_DEV_PORTS from its i-th port on
RECURSIVE selectiveLoopRuns(_, _, _)
selectiveLoopRuns(sd, i, steps) ==
    IF i > Len(COMMON_DEV_PORTS) THEN {steps}
    ELSE UNION {selectiveLoopRuns(sd, i + 1, Append(steps, step))
                : step \in selectivePortRuns(sd, COMMON_DEV_PORTS[i])}

\* the commands of a sequence of steps, in order
RECURSIVE logOf(_)
logOf(steps) ==
    IF steps = <<>> THEN <<>> ELSE Head(steps).log \o logOf(Tail(steps))

\* the lines a loop reported
reported(steps) ==
    LET said == SelectSeq(steps, LAMBDA step : step.kind # "")
    IN [i \in 1..Len(said) |->
          [port |-> said[i].port, services |-> said[i].services,
           kind |-> said[i].kind]]

\* what the OS answered in each step
answers(steps) ==
    [i \in 1..Len(steps) |->
       [port |-> steps[i].port, log |-> steps[i].log,
        classq |-> steps[i].classq, inUse |-> steps[i].inUse,
        killOk |-> steps[i].killOk]]

\* MacResourceManager.killDevServersSelective: every way it can run.
\* killedCount goes up where "Cleaned port" is reported; the final line
\* gives it when it is not 0
killDevServersSelectiveRuns(sd) ==
    {LET killedCount ==
             Len(SelectSeq(steps, LAMBDA step : step.kind = "cleaned"))
     IN Run([Result(FALSE, IF killedCount = 0 THEN "none-found" ELSE "cleaned")
                EXCEPT !.lines = reported(steps), !.killedCount = killedCount],
            logOf(steps), answers(steps))
     : steps \in selectiveLoopRuns(sd, 1, <<>>)}

----------------------------------------------------------------------------
(* Resource Manager: killProjectPorts *)

\* find() taking the last project of that name
findProject_last(projects, projectName) ==
    LET hits == SelectSeq(projects,
                    LAMBDA p : toLowerCase(p.name) = toLowerCase(projectName))
    IN IF hits = <<>> THEN <<>> ELSE <<hits[Len(hits)]>>

\* find() comparing the names as they are
findProject_caseSensitive(projects, projectName) ==
    LET hits == SelectSeq(projects, LAMBDA p : p.name = projectName)
    IN IF hits = <<>> THEN <<>> ELSE <<hits[1]>>

\* projects.find(p => p.name.toLowerCase() === projectName.toLowerCase()):
\* the first such project, or none
findProject(projects, projectName) ==
    LET hits == SelectSeq(projects,
                    LAMBDA p : toLowerCase(p.name) = toLowerCase(projectName))
    IN IF hits = <<>> THEN <<>> ELSE <<hits[1]>>

\* what `lsof -i` and `lsof -ti` answer while killProjectPorts runs
ProjectLsofKeys == {"throws", "node", "java"}
ProjectPidAnswers == {NoPids, [ok |-> TRUE, pids |-> <<>>],
                      [ok |-> TRUE, pids |-> <<101, 202>>]}

\* one iteration of the loop over project.ports: every way it can run
projectPortRuns(sd, port) ==
    IF isProtectedPort(sd, port)
    THEN {PortStep(port, "skipped-protected", <<>>, <<>>, FALSE, "none", FALSE)}
    ELSE UNION {
        LET processCheck == checkForCriticalProcesses(lsofAnswer(key))
            q1 == <<Lsof("lsof -i", port)>>
            q2 == q1 \o <<Lsof("lsof -ti", port)>>
        IN IF processCheck.hasCritical
           THEN {PortStep(port, "skipped-critical", processCheck.services, q1,
                          FALSE, key, FALSE)}
           ELSE UNION {
               IF ~pidq.ok
               THEN {PortStep(port, "could-not-kill", <<>>, q2, FALSE, key, FALSE)}
               ELSE IF pidq.pids = <<>>
               THEN {PortStep(port, "already-available", <<>>, q2, FALSE, key, FALSE)}
               ELSE {PortStep(port, IF ok THEN "killed" ELSE "could-not-kill",
                              <<>>, q2 \o <<Kill("TERM", pidq.pids, port)>>,
                              FALSE, key, ok)
                     : ok \in BOOLEAN}
               : pidq \in ProjectPidAnswers}
        : key \in ProjectLsofKeys}

\* the loop over project.ports from its i-th entry on
RECURSIVE projectLoopRuns(_, _, _, _)
projectLoopRuns(sd, ports, i, steps) ==
    IF i > Len(ports) THEN {steps}
    ELSE UNION {projectLoopRuns(sd, ports, i + 1, Append(steps, step))
                : step \in projectPortRuns(sd, ports[i])}

\* MacResourceManager.killProjectPorts: every way it can run
killProjectPortsRuns(sd, projectName) ==
    LET project == findProject(getActiveProjects(sd), projectName)
    IN IF project = <<>>
       THEN {Run(Result(TRUE, "not-found"), <<>>, <<>>)}
       ELSE {LET killedCount ==
                     Len(SelectSeq(steps, LAMBDA step : step.kind = "killed"))
             IN Run([Result(FALSE, "project-ports") EXCEPT
                        !.label = project[1].name,
                        !.lines = reported(steps),
                        !.killedCount = killedCount],
                    logOf(steps), answers(steps))
             : steps \in projectLoopRuns(sd, project[1].ports, 1, <<>>)}

----------------------------------------------------------------------------
(* Resource Manager: killDevServers *)

\* the keys of SERVER_PATTERNS, in the order Object.values lists them
SERVER_TAGS == <<"astro", "npm", "vite", "next">>

SERVER_PATTERNS ==
    [astro |-> <<"astro dev", "astro preview">>,
     npm |-> <<"npm run dev", "npm start", "npm run serve">>,
     vite |-> <<"vite", "vite dev", "vite serve">>,
     next |-> <<"next dev", "next start">>]

\* property names every object literal inherits from Object.prototype
OBJECT_PROTOTYPE_KEYS ==
    {"constructor", "toString", "valueOf", "hasOwnProperty", "__proto__"}

\* this.SERVER_PATTERNS[serverType]: the tag's array, an inherited member
\* (truthy, not iterable), or undefined
serverPatternsLookup(serverType) ==
    IF serverType \in Range(SERVER_TAGS)
    THEN [kind |-> "array", patterns |-> SERVER_PATTERNS[serverType]]
    ELSE IF serverType \in OBJECT_PROTOTYPE_KEYS
         THEN [kind |-> "inherited", patterns |-> <<>>]
         ELSE [kind |-> "undefined", patterns |-> <<>>]

\* Object.values(this.SERVER_PATTERNS).flat()
RECURSIVE flatValues(_)
flatValues(i) ==
    IF i > Len(SERVER_TAGS) THEN <<>>
    ELSE SERVER_PATTERNS[SERVER_TAGS[i]] \o flatValues(i + 1)

\* one `pkill -f`: it exits 0, or execAsync throws with or without
\* 'exit code 1' in the message
PkillOutcomes == {"ok", "throws: exit code 1", "throws"}

\* the for loop over patterns: every pattern gets its own try/catch
RECURSIVE pkillLoopRuns(_, _, _)
pkillLoopRuns(patterns, i, run) ==
    IF i > Len(patterns) THEN {run}
    ELSE UNION {
        pkillLoopRuns(patterns, i + 1,
            Run([run.result EXCEPT
                    !.killedCount = @ + (IF outcome = "ok" THEN 1 ELSE 0),
                    !.warnings = @ + (IF outcome = "throws" THEN 1 ELSE 0)],
                Append(run.oslog, Pkill(patterns[i])), "none"))
        : outcome \in PkillOutcomes}

\* MacResourceManager.killDevServers
killDevServersRuns(serverType) ==
    LET found == serverPatternsLookup(serverType)
    IN IF serverType = "all"
       THEN pkillLoopRuns(flatValues(1), 1, Run(Result(FALSE, "swept"), <<>>, "none"))
       ELSE IF found.kind = "array"
       THEN pkillLoopRuns(found.patterns, 1, Run(Result(FALSE, "swept"), <<>>, "none"))
       ELSE IF found.kind = "inherited"
       THEN {Run(Result(TRUE, "not-iterable"), <<>>, "none")}
       ELSE {Run(Result(TRUE, "unknown-server-type"), <<>>, "none")}

----------------------------------------------------------------------------
(* Resource Manager: the listings *)

\* what `lsof -i` can answer to a listing, by name: it throws, prints nothing,
\* lists a process, or prints a line parseProcessInfo drops
ListingLsofKeys == {"throws", "empty", "node", "nopid"}

\* the loop of listDevPorts: one query per port; a port whose output has no
\* parsable line gets no entry
RECURSIVE listDevPortsLoopRuns(_, _, _)
listDevPortsLoopRuns(ports, i, run) ==
    IF i > Len(ports) THEN {run}
    ELSE LET port == ports[i]
         IN UNION {
                LET q == lsofAnswer(key)
                    processInfo == parseProcessInfo(q.stdout)
                    pushed ==
                        IF ~q.ok \/ q.stdout = <<>>
                        THEN <<[port |-> port, pid |-> NaN, status |-> "available"]>>
                        ELSE IF Len(processInfo) > 0
                        THEN <<[port |-> port, pid |-> processInfo[1].pid,
                                status |-> "in-use"]>>
                        ELSE <<>>
                IN listDevPortsLoopRuns(ports, i + 1,
                       Run([run.result EXCEPT !.statuses = @ \o pushed],
                           Append(run.oslog, Lsof("lsof -i", port)),
                           Append(run.classq, key)))
                : key \in IF port \in BusyDevPorts THEN ListingLsofKeys ELSE {"throws"}}

\* MacResourceManager.listDevPorts, over the ports of its table
listDevPortsRuns(ports) ==
    listDevPortsLoopRuns(ports, 1, Run(Result(FALSE, "dev-ports"), <<>>, <<>>))

\* Object.entries(this.PROTECTED_PORTS): integer keys in ascending order
RECURSIVE ascending(_)
ascending(S) ==
    IF S = {} THEN <<>>
    ELSE LET least == CHOOSE x \in S : \A y \in S : x <= y
         IN <<least>> \o ascending(S \ {least})

\* the protected ports that listProtectedServices can find in use; on every
\* other one its `lsof -i` throws
BusyProtectedPorts == {3306, 5432}

\* the loop of listProtectedServices over the entries of PROTECTED_PORTS
RECURSIVE listProtectedLoopRuns(_, _, _)
listProtectedLoopRuns(entries, i, run) ==
    IF i > Len(entries) THEN {run}
    ELSE LET port == entries[i]
         IN UNION {
                LET q == lsofAnswer(key)
                    found == q.ok /\ q.stdout # <<>>
                IN listProtectedLoopRuns(entries, i + 1,
                       Run([run.result EXCEPT
                               !.running = IF found THEN Append(@, port) ELSE @],
                           Append(run.oslog, Lsof("lsof -i", port)), "none"))
                : key \in IF port \in BusyProtectedPorts
                          THEN {"throws", "empty", "node"} ELSE {"throws"}}

\* MacResourceManager.listProtectedServices: the ports and the patterns it
\* prints come from the two static tables
listProtectedServicesRuns(sd) ==
    LET entries == ascending(DOMAIN PROTECTED_PORTS)
    IN listProtectedLoopRuns(entries, 1,
           Run([Result(FALSE, "protected-services") EXCEPT
                   !.ports = entries, !.lines = PROTECTED_PROCESS_PATTERNS],
               <<>>, "none"))

\* MacResourceManager.listActiveProjects
listActiveProjectsRuns(sd) ==
    LET projects == getActiveProjects(sd)
    IN IF Len(projects) = 0
       THEN {Run(Result(FALSE, "no-projects"), <<>>, "none")}
       ELSE {Run([Result(FALSE, "projects") EXCEPT !.lines = projects], <<>>, "none")}

----------------------------------------------------------------------------
(* Inputs of the operations *)

\* port arguments: out of range, with a fraction, a development port, a
\* built-in protected port
PortArgs == {PortArg(0), PortArg(65536), Fraction(3000),
             PortArg(3000), PortArg(3306)}

ValidPorts == {a.value : a \in {b \in PortArgs : validatePort(b)}}

Services == {"A", "B"}

\* the projects add_project is called with: two names that differ in case
\* only, a built-in protected port, a port registered twice, one name in two
\* directories
ProjectArgs ==
    {[ports |-> <<3000, 3001>>, name |-> <<"a","p","p">>, directory |-> "/x",
      framework |-> "Next.js"],
     [ports |-> <<3306, 8080>>, name |-> <<"A","P","I">>, directory |-> "/y",
      framework |-> "Express"],
     [ports |-> <<8080, 8080>>, name |-> <<"A","P","P">>, directory |-> "/y",
      framework |-> "Vite"],
     [ports |-> <<3000>>, name |-> <<"a","p","p">>, directory |-> "/y",
      framework |-> "Vite"]}

\* the server types killDevServers is called with
ServerTypes == {"all", "astro", "npm", "vite", "next", "react", "", "constructor"}

\* the names kill_project_ports is called with
ProjectNames == {<<"A","P","P">>, <<"a","p","i">>, <<"w","e","b">>}

\* a document an earlier run of the server saved
SavedSession ==
    [activeProjects |-> <<>>,
     protectedPorts |-> <<3001>>,
     lastActivity |-> 0,
     customProtectedServices |-> [p \in {3001} |-> "A"]]

HOUR_MS == 3600000

\* a project as the file holds it, last active h hours before the server starts
StoredProject(name, directory, h) ==
    [ports |-> <<3000>>, name |-> name, directory |-> directory,
     framework |-> "Vite", lastActive |-> 0 - h * HOUR_MS]

\* a document saved 23 hours ago at the latest, with projects last active 25,
\* 24 and 23 hours ago
AgedSession ==
    [activeProjects |-> <<StoredProject(<<"o","l","d">>, "/25", 25),
                          StoredProject(<<"d","a","y">>, "/24", 24),
                          StoredProject(<<"n","e","w">>, "/23", 23)>>,
     protectedPorts |-> <<>>,
     lastActivity |-> 0 - 23 * HOUR_MS,
     customProtectedServices |-> EmptyMap]

\* does JSON.parse give the document a value for the key
hasKey(doc, key) == key \in DOMAIN doc

\* the document of a JSON text without the key activeProjects
PartialSession ==
    [protectedPorts |-> <<3001>>,
     lastActivity |-> 0,
     customProtectedServices |-> [p \in {3001} |-> "A"]]

\* the session file when the server starts: missing, not JSON, saved
\* earlier, or JSON that is no complete session document
InitialFiles ==
    {[kind |-> "absent", doc |-> EmptySession(0)],
     [kind |-> "corrupt", doc |-> EmptySession(0)],
     [kind |-> "json", doc |-> SavedSession],
     [kind |-> "json", doc |-> AgedSession],
     [kind |-> "json", doc |-> PartialSession]}

----------------------------------------------------------------------------
(* State after construction *)

\* the arguments of add_project when the call is another one
\* the locals of a monitorPort call while its loop runs: no call is running
NoMonitor ==
    [lastStatus |-> [processName |-> <<>>, pid |-> NaN, kind |-> ""],
     endTime |-> 0, duration |-> 0, pc |-> "idle", given |-> FALSE,
     startTime |-> 0, polls |-> 0, lastPollAt |-> 0]

NoProject == [ports |-> <<>>, name |-> <<>>, directory |-> "", framework |-> ""]

\* the record of an operation: its name, the class it belongs to, its
\* arguments, whether its port was a custom protected port when it began, the
\* name of the answer to its classification query, whether it changed the
\* document or the file, how its saveSession went and, for a restart, the
\* document of the process that ended and whether the file held it
Call(op, src) ==
    [pids |-> <<>>, port |-> PortArg(0), outcome |-> "none", service |-> "", name |-> <<>>,
     accessor |-> "", classq |-> "none", requery |-> NoPids, force |-> FALSE,
     project |-> NoProject, serverType |-> "", op |-> op, src |-> src,
     wasCustom |-> FALSE, oldService |-> "", mutated |-> FALSE, existed |-> FALSE,
     before |-> EmptySession(0), synced |-> FALSE, edit |-> "", monitor |-> NoMonitor]

Constructed ==
    /\ now = 0
    /\ call = [pids |-> <<>>, port |-> PortArg(0), outcome |-> "none",
               service |-> "", name |-> <<>>, accessor |-> "", classq |-> "none",
               requery |-> NoPids, force |-> FALSE, project |-> NoProject,
               serverType |-> "", op |-> "constructor", src |-> "part_001",
               wasCustom |-> FALSE, oldService |-> "", mutated |-> FALSE,
               existed |-> FALSE, before |-> EmptySession(0), synced |-> FALSE,
               edit |-> "", monitor |-> NoMonitor]
    /\ result = Result(FALSE, "none")
    /\ oslog = <<>>

\* the constructors have run; loadSession() has been started
Init ==
    /\ sessionData = EmptySession(0)
    /\ file \in InitialFiles
    /\ loadpc = "start"
    /\ loadbuf = [ok |-> FALSE, kind |-> "absent", doc |-> EmptySession(0)]
    /\ Constructed

\* the constructors have run and loadSession() has completed: on a missing
\* file it saved the empty document, on a saved file it loaded it
InitLoaded ==
    /\ sessionData \in {EmptySession(0), SavedSession}
    /\ file = [kind |-> "json", doc |-> sessionData]
    /\ loadpc = "done"
    /\ loadbuf = [ok |-> FALSE, kind |-> "absent", doc |-> EmptySession(0)]
    /\ Constructed

----------------------------------------------------------------------------
(* SessionManager.loadSession, started and not awaited by the constructor *)

\* mkdir and readFile: either throws, or the file's text is read
loadSession_read ==
    /\ loadpc = "start"
    /\ loadpc' = "read"
    /\ \E ioOk \in BOOLEAN :
          loadbuf' = IF ioOk /\ file.kind # "absent"
                     THEN [ok |-> TRUE, kind |-> file.kind, doc |-> file.doc]
                     ELSE [ok |-> FALSE, kind |-> "absent", doc |-> EmptySession(0)]
    /\ UNCHANGED <<sessionData, file, now, call, result, oslog>>

\* the eviction comparing lastActive with the load time itself
activeSince_noWindow(projects, t) ==
    SelectSeq(projects, LAMBDA project : project.lastActive > t)

\* the projects loadSession keeps
activeSince(projects, t) ==
    SelectSeq(projects, LAMBDA project : project.lastActive > t - DAY_MS)

\* JSON.parse, the assignment to sessionData and the eviction, or the catch
\* block's saveSession; filter() on a missing activeProjects throws after the
\* assignment, so the catch block then saves the parsed document
loadSession_apply ==
    /\ loadpc = "read"
    /\ loadpc' = "done"
    /\ IF loadbuf.ok /\ loadbuf.kind = "json"
       THEN IF hasKey(loadbuf.doc, "activeProjects")
            THEN /\ sessionData' =
                      [loadbuf.doc EXCEPT
                         !.activeProjects = activeSince(loadbuf.doc.activeProjects, now)]
                 /\ file' = file
            ELSE \E outcome \in SaveOutcomes :
                 /\ sessionData' = savedDoc(loadbuf.doc, outcome, now)
                 /\ file' = savedFile(loadbuf.doc, outcome, now, file)
       ELSE \E outcome \in SaveOutcomes :
            /\ sessionData' = savedDoc(sessionData, outcome, now)
            /\ file' = savedFile(sessionData, outcome, now, file)
    /\ loadbuf' = [ok |-> FALSE, kind |-> "absent", doc |-> EmptySession(0)]
    /\ UNCHANGED <<now, call, result, oslog>>

----------------------------------------------------------------------------
(* Operations *)

\* a handler that leaves the session store alone returns
Returns(op, src, port, force, run) ==
    /\ call' = [Call(op, src) EXCEPT
                   !.port = port, !.force = force, !.classq = run.classq,
                   !.pids = run.pids, !.requery = run.requery,
                   !.wasCustom = port.value \in Range(sessionData.protectedPorts)]
    /\ result' = run.result
    /\ oslog' = run.oslog
    /\ UNCHANGED <<sessionData, file, loadpc, loadbuf, now>>

\* kill_port as the full manager handles it
killPort ==
    \E port \in PortArgs, force \in BOOLEAN :
    \E run \in killPortRuns(sessionData, port, force) :
        Returns("killPort", "part_001", port, force, run)

\* kill_port as src/src/resource-manager.ts handles it
killPort_rm ==
    \E port \in PortArgs, force \in BOOLEAN :
    \E run \in killPortRuns_rm(port, force) :
        Returns("killPort", "resource-manager.ts", port, force, run)

\* check_port dispatched to killPort
checkPort_kill ==
    \E port \in PortArgs :
    \E run \in killPortRuns(sessionData, port, FALSE) :
        Returns("checkPort", "part_001", port, FALSE, run)

\* check_port
checkPort ==
    \E port \in PortArgs :
    \E run \in checkPortRuns(port) :
        Returns("checkPort", "part_001", port, FALSE, run)

\* monitor_port
monitorPort ==
    \E port \in PortArgs, duration \in Durations :
    \E run \in monitorPortRuns(port, duration) :
        Returns("monitorPort", "part_001", port, FALSE, run)

\* MacResourceManager.addCustomProtectedPort, with the save outcomes and the
\* service texts it is tried on
addCustomProtectedPortWith(Outcomes, Texts) ==
    \E port \in PortArgs, service \in Texts :
        IF ~validatePort(port)
        THEN /\ call' = [Call("addCustomProtectedPort", "part_001") EXCEPT
                            !.port = port, !.service = service]
             /\ result' = Result(TRUE, "invalid-port")
             /\ oslog' = <<>>
             /\ UNCHANGED <<sessionData, file, loadpc, loadbuf, now>>
        ELSE \E outcome \in Outcomes :
             LET added == addProtectedPort(sessionData, port.value, service)
                 sd == savedDoc(added, outcome, now)
                 written == savedFile(added, outcome, now, file)
             IN /\ Len(added.protectedPorts) <= MaxCustom
                /\ sessionData' = sd
                /\ file' = written
                /\ call' = [Call("addCustomProtectedPort", "part_001") EXCEPT
                               !.port = port, !.service = service,
                               !.wasCustom =
                                   port.value \in Range(sessionData.protectedPorts),
                               !.oldService =
                                   IF port.value \in DOMAIN sessionData.customProtectedServices
                                   THEN sessionData.customProtectedServices[port.value]
                                   ELSE "",
                               !.outcome = outcome,
                               !.mutated = (sd # sessionData \/ written # file)]
                /\ result' = IF saveSessionThrows(outcome)
                              THEN Result(TRUE, "exec-error")
                              ELSE Result(FALSE, "added")
                /\ oslog' = <<>>
                /\ UNCHANGED <<loadpc, loadbuf, now>>

\* add_protected_port
addCustomProtectedPort == addCustomProtectedPortWith(SaveOutcomes, Services)

\* add_protected_port with service "A", when the file system works
addCustomProtectedPort_A == addCustomProtectedPortWith({"ok"}, {"A"})

\* SessionManager.removeProtectedPort with its saveSession
removeProtectedPort_save ==
    \E p \in ValidPorts, outcome \in SaveOutcomes :
        LET removed == removeProtectedPort(sessionData, p)
            sd == savedDoc(removed, outcome, now)
            written == savedFile(removed, outcome, now, file)
        IN /\ sessionData' = sd
           /\ file' = written
           /\ call' = [Call("removeProtectedPort", "session-manager.ts") EXCEPT
                          !.port = PortArg(p),
                          !.wasCustom = p \in Range(sessionData.protectedPorts),
                          !.outcome = outcome,
                          !.mutated = (sd # sessionData \/ written # file)]
           /\ result' = Result(FALSE, "none")
           /\ oslog' = <<>>
           /\ UNCHANGED <<loadpc, loadbuf, now>>

\* kill_dev_servers_selective
killDevServersSelective ==
    \E run \in killDevServersSelectiveRuns(sessionData) :
        /\ call' = [Call("killDevServersSelective", "part_001") EXCEPT
                       !.classq = run.classq]
        /\ result' = run.result
        /\ oslog' = run.oslog
        /\ UNCHANGED <<sessionData, file, loadpc, loadbuf, now>>

\* MacResourceManager.addProject, SessionManager.addProject and its
\* saveSession, with the arguments and the save outcomes it is tried on
add_projectWith(Args, Outcomes) ==
    \E a \in Args, outcome \in Outcomes :
        LET added == addProject(sessionData, a.name, a.directory, a.ports,
                                a.framework, now)
            sd == savedDoc(added, outcome, now)
            written == savedFile(added, outcome, now, file)
        IN /\ Len(added.activeProjects) <= MaxProjects
           /\ sessionData' = sd
           /\ file' = written
           /\ call' = [Call("addProject", "part_001") EXCEPT
                          !.name = a.name,
                          !.project = a,
                          !.existed = \E i \in 1..Len(sessionData.activeProjects) :
                              sessionData.activeProjects[i].directory = a.directory,
                          !.outcome = outcome,
                          !.mutated = (sd # sessionData \/ written # file)]
           /\ result' = IF saveSessionThrows(outcome)
                         THEN Result(TRUE, "exec-error")
                         ELSE Result(FALSE, "added")
           /\ oslog' = <<>>
           /\ UNCHANGED <<loadpc, loadbuf, now>>

add_project == add_projectWith(ProjectArgs, SaveOutcomes)

\* kill_project_ports
killProjectPorts ==
    \E projectName \in ProjectNames :
    \E run \in killProjectPortsRuns(sessionData, projectName) :
        /\ call' = [Call("killProjectPorts", "part_001") EXCEPT
                       !.name = projectName, !.classq = run.classq]
        /\ result' = run.result
        /\ oslog' = run.oslog
        /\ UNCHANGED <<sessionData, file, loadpc, loadbuf, now>>

\* the projects and the save outcomes add_project is tried on across restarts
DurableProjects ==
    {[ports |-> <<3000, 3001>>, name |-> <<"a","p","p">>, directory |-> "/x",
      framework |-> "Next.js"]}
DurableOutcomes == {"ok", "write-failed"}

add_project_durable == add_projectWith(DurableProjects, DurableOutcomes)

addCustomProtectedPort_durable == addCustomProtectedPortWith(DurableOutcomes, {"A"})

\* the server process ends and a new one starts, at once or a day later: the constructors run again and loadSession is started
restart ==
    /\ loadpc = "done"
    /\ \E elapsed \in {0, DAY_MS} :
          /\ now + elapsed <= MaxDays * DAY_MS
          /\ now' = now + elapsed
          /\ sessionData' = EmptySession(now + elapsed)
    /\ loadpc' = "start"
    /\ call' = [Call("restart", "part_001") EXCEPT
                   !.before = sessionData,
                   !.synced = (file = [kind |-> "json", doc |-> sessionData])]
    /\ result' = Result(FALSE, "none")
    /\ oslog' = <<>>
    /\ UNCHANGED <<file, loadbuf>>

\* the accessors a caller of the store uses, and what it does to the array
\* it got: push an element, pop one, or assign to the first one's content
Accessors == {"getActiveProjects", "getProtectedPorts"}
Edits == {"push", "pop", "assign"}

\* a caller of the store edits the array an accessor returned; the store's
\* document changes when that array is the store's own
callerEdits ==
    \E accessor \in Accessors, edit \in Edits :
        LET ofProjects == accessor = "getActiveProjects"
            value == IF ofProjects THEN getActiveProjects(sessionData)
                     ELSE getProtectedPorts(sessionData)
            pushed == IF ofProjects
                      THEN Append(value, StoredProject(<<"z">>, "/z", 0))
                      ELSE Append(value, 9999)
            popped == IF value = <<>> THEN value ELSE SubSeq(value, 1, Len(value) - 1)
            assigned == IF value = <<>> THEN value
                        ELSE IF ofProjects THEN [value EXCEPT ![1].ports = <<>>]
                        ELSE [value EXCEPT ![1] = 9999]
            edited == CASE edit = "push" -> pushed
                        [] edit = "pop" -> popped
                        [] edit = "assign" -> assigned
            sd == IF ~returnsInternal(accessor) THEN sessionData
                  ELSE IF ofProjects THEN [sessionData EXCEPT !.activeProjects = edited]
                  ELSE [sessionData EXCEPT !.protectedPorts = edited]
        IN /\ Len(edited) <= MaxProjects
           /\ sessionData' = sd
           /\ call' = [Call("callerEdits", "session-manager.ts") EXCEPT
                          !.accessor = accessor, !.edit = edit,
                          !.before = sessionData,
                          !.mutated = (sd # sessionData)]
           /\ result' = Result(FALSE, "none")
           /\ oslog' = <<>>
           /\ UNCHANGED <<file, loadpc, loadbuf, now>>

\* killDevServers attempting nothing in a session with custom protected ports
killDevServers_protective ==
    \E serverType \in ServerTypes :
    \E run \in IF sessionData.protectedPorts = <<>>
                THEN killDevServersRuns(serverType)
                ELSE {Run(Result(FALSE, "swept"), <<>>, "none")} :
        /\ call' = [Call("killDevServers", "part_001") EXCEPT !.serverType = serverType]
        /\ result' = run.result
        /\ oslog' = run.oslog
        /\ UNCHANGED <<sessionData, file, loadpc, loadbuf, now>>

\* MacResourceManager.killDevServers
killDevServers ==
    \E serverType \in ServerTypes :
    \E run \in killDevServersRuns(serverType) :
        /\ call' = [Call("killDevServers", "part_001") EXCEPT !.serverType = serverType]
        /\ result' = run.result
        /\ oslog' = run.oslog
        /\ UNCHANGED <<sessionData, file, loadpc, loadbuf, now>>

\* list_dev_ports
listDevPorts ==
    \E run \in listDevPortsRuns(COMMON_DEV_PORTS) :
        Returns("listDevPorts", "part_001", PortArg(0), FALSE, run)

\* list_protected_services
listProtectedServices ==
    \E run \in listProtectedServicesRuns(sessionData) :
        Returns("listProtectedServices", "part_001", PortArg(0), FALSE, run)

\* list_active_projects
listActiveProjects ==
    \E run \in listActiveProjectsRuns(sessionData) :
        Returns("listActiveProjects", "part_001", PortArg(0), FALSE, run)

\* add_project with port lists that hold a value outside 1..65535
RangeProjects ==
    {[ports |-> <<0, 3000>>, name |-> <<"a","p","p">>, directory |-> "/x",
      framework |-> "Next.js"],
     [ports |-> <<65536>>, name |-> <<"w","e","b">>, directory |-> "/w",
      framework |-> "Vite"]}

add_project_range == add_projectWith(RangeProjects, {"ok"})

\* the duration argument of monitor_port: absent, or a number of seconds; the
\* schema's maximum of 300 is not enforced by the handler
DurationArgs ==
    {[value |-> 0, given |-> FALSE], [value |-> 0, given |-> TRUE],
     [value |-> 5, given |-> TRUE], [value |-> 305, given |-> TRUE]}

\* (args?.duration as number) || 30
durationOrDefault(arg) == IF ~arg.given \/ arg.value = 0 THEN 30 ELSE arg.value

\* monitorPort up to its while loop: validatePort, startTime, endTime, lastStatus
monitor_start ==
    /\ call.monitor.pc # "polling"
    /\ \E port \in {PortArg(0), PortArg(3000)}, arg \in DurationArgs :
          LET duration == durationOrDefault(arg)
          IN /\ now + duration * 1000 <= MonitorHorizon
             /\ IF ~validatePort(port)
                THEN /\ call' = [Call("monitorPort", "part_001") EXCEPT !.port = port]
                     /\ result' = Result(TRUE, "invalid-port")
                ELSE /\ call' = [Call("monitorPort", "part_001") EXCEPT
                                    !.port = port,
                                    !.monitor = [NoMonitor EXCEPT
                                        !.pc = "polling", !.given = arg.given,
                                        !.duration = duration, !.startTime = now,
                                        !.endTime = now + duration * 1000]]
                     /\ result' = Result(FALSE, "monitoring")
    /\ oslog' = <<>>
    /\ UNCHANGED <<sessionData, file, loadpc, loadbuf, now>>

\* one turn of the while loop: the query, the line when the status changed,
\* and the 5000 ms timer, firing on time (the schedule with the most polls)
monitor_poll ==
    /\ call.monitor.pc = "polling"
    /\ now < call.monitor.endTime
    /\ \E key \in {"throws", "node"} :
          LET currentStatus == statusOf(lsofAnswer(key))
              changed == statusChanged(currentStatus, call.monitor.lastStatus)
          IN /\ call' = [call EXCEPT
                            !.monitor.polls = @ + 1,
                            !.monitor.lastPollAt = now,
                            !.monitor.lastStatus =
                                IF changed THEN currentStatus ELSE @]
             /\ result' = [result EXCEPT
                              !.lines = IF changed THEN Append(@, currentStatus) ELSE @]
             /\ oslog' = Append(oslog, Lsof("lsof -i", call.port.value))
             /\ now' = now + POLL_MS
    /\ UNCHANGED <<sessionData, file, loadpc, loadbuf>>

\* the loop's test fails: 'Monitoring completed' is returned
monitor_return ==
    /\ call.monitor.pc = "polling"
    /\ ~(now < call.monitor.endTime)
    /\ call' = [call EXCEPT !.monitor.pc = "returned"]
    /\ result' = [result EXCEPT !.kind = "monitored"]
    /\ UNCHANGED <<sessionData, file, loadpc, loadbuf, now, oslog>>

----------------------------------------------------------------------------
(* Specifications *)

\* the session store from construction on
Next ==
    \/ loadSession_read
    \/ loadSession_apply
    \/ addCustomProtectedPort
    \/ removeProtectedPort_save

Spec == Init /\ [][Next]_vars

\* the port operations once the session is loaded
NextKill ==
    \/ killPort
    \/ killPort_rm
    \/ checkPort
    \/ monitorPort
    \/ addCustomProtectedPort_A

SpecKill == InitLoaded /\ [][NextKill]_vars

\* the classification alone, on every listing of at most MaxLines data lines
InitPolicy ==
    /\ sessionData = EmptySession(0)
    /\ file = [kind |-> "absent", doc |-> EmptySession(0)]
    /\ loadpc = "start"
    /\ loadbuf = [ok |-> FALSE, kind |-> "absent", doc |-> EmptySession(0)]
    /\ now = 0
    /\ call \in {[q |-> q, op |-> "pending"] :
                   q \in {ExecFailed(FALSE)} \cup
                         {[ok |-> TRUE, noSuchProcess |-> FALSE, stdout |-> o] :
                              o \in Stdouts(MaxLines)}}
    /\ result = [hasCritical |-> FALSE, services |-> <<>>]
    /\ oslog = <<>>

classify ==
    /\ call.op = "pending"
    /\ call' = [call EXCEPT !.op = "checkForCriticalProcesses"]
    /\ result' = checkForCriticalProcesses(call.q)
    /\ oslog' = <<Lsof("lsof -i", 3000)>>
    /\ UNCHANGED <<sessionData, file, loadpc, loadbuf, now>>

NextPolicy == classify

SpecPolicy == InitPolicy /\ [][NextPolicy]_vars

\* the selective sweep once the session is loaded
NextSelective ==
    \/ killDevServersSelective
    \/ addCustomProtectedPort_A

SpecSelective == InitLoaded /\ [][NextSelective]_vars

\* the project registry and kill_project_ports once the session is loaded
NextProject ==
    \/ add_project
    \/ killProjectPorts

SpecProject == InitLoaded /\ [][NextProject]_vars

\* the session store across restarts of the server
NextDurable ==
    \/ add_project_durable
    \/ addCustomProtectedPort_durable
    \/ restart
    \/ loadSession_read
    \/ loadSession_apply

SpecDurable == InitLoaded /\ [][NextDurable]_vars

\* the store and the callers of its accessors
NextAccessors ==
    \/ add_project_durable
    \/ addCustomProtectedPort_A
    \/ callerEdits

SpecAccessors == InitLoaded /\ [][NextAccessors]_vars

\* the pattern sweep, in sessions with and without custom protected ports
\* and registered projects
NextServers ==
    \/ killDevServers
    \/ addCustomProtectedPort_A
    \/ add_project_durable

SpecServers == InitLoaded /\ [][NextServers]_vars

\* the operations that only report, in sessions that the two registering
\* operations have been run in
NextListing ==
    \/ checkPort
    \/ listDevPorts
    \/ monitorPort
    \/ listProtectedServices
    \/ listActiveProjects
    \/ addCustomProtectedPort_A
    \/ add_project_durable

SpecListing == InitLoaded /\ [][NextListing]_vars

\* the operations that store ports, and the one that acts on stored ports
NextRange ==
    \/ add_project_range
    \/ addCustomProtectedPort_A
    \/ killProjectPorts

SpecRange == InitLoaded /\ [][NextRange]_vars

\* monitorPort poll by poll, on the clock
NextMonitor ==
    \/ monitor_start
    \/ monitor_poll
    \/ monitor_return

SpecMonitor == InitLoaded /\ [][NextMonitor]_vars

\* the timers of a running call fire and its return is reached
SpecMonitorFair == SpecMonitor /\ WF_vars(monitor_poll) /\ WF_vars(monitor_return)

----------------------------------------------------------------------------
(* Claims *)

\* words of the claims
IsPort(port) == port.isInteger /\ port.value \in 1..65535
NoQuery == \A i \in 1..Len(oslog) : oslog[i].cmd \notin {"lsof -i", "lsof -ti"}
NoSignal == \A i \in 1..Len(oslog) : oslog[i].cmd \notin {"kill", "pkill"}
Patterns == Range(PROTECTED_PROCESS_PATTERNS)
CarriesPattern(info) ==
    \E pat \in Patterns :
        \/ includes(toLowerCase(info.processName), pat)
        \/ includes(toLowerCase(info.command), pat)
Occurrences(seq, x) == Cardinality({i \in 1..Len(seq) : seq[i] = x})

\* C1: for every built-in protected port p and both values of force,
\* killPort(p, force) returns an error result without issuing any process
\* query and without sending any termination signal.
C1_BuiltinPortRefused ==
    (call.op = "killPort" /\ IsPort(call.port) /\ call.port.value \in BUILTIN_PORTS)
        => (result.isError /\ NoQuery /\ NoSignal)

\* C2: when killPort of the full manager runs on a port that is not protected
\* by number and its classification query lists a process whose name or
\* command contains a protected pattern, it returns the error naming the
\* matching processes and sends no termination signal.
C2_CriticalProcessRejected ==
    (/\ call.op = "killPort" /\ call.src = "part_001"
     /\ IsPort(call.port)
     /\ call.port.value \notin BUILTIN_PORTS /\ ~call.wasCustom
     /\ call.classq # "none"
     /\ lsofAnswer(call.classq).ok
     /\ \E info \in Range(parseProcessInfo(lsofAnswer(call.classq).stdout)) :
            CarriesPattern(info))
        => (/\ result.isError
            /\ result.kind = "critical"
            /\ Range(result.services) =
                   {info.processName :
                      info \in {x \in Range(parseProcessInfo(lsofAnswer(call.classq).stdout)) :
                                  CarriesPattern(x)}}
            /\ NoSignal)

C2_Witness ==
    /\ call.op = "killPort" /\ call.src = "part_001"
    /\ call.port = PortArg(3000) /\ call.force
    /\ call.classq = "java"
    /\ result.kind = "critical"
    /\ result.services = << <<"j","a","v","a">> >>

\* C3: for every port value that is not an integer in 1..65535, checkPort,
\* killPort, monitorPort and addCustomProtectedPort return the invalid-port
\* error having issued no process query, sent no signal and changed neither
\* the session document nor the session file.
C3_InvalidPortFailsFirst ==
    (/\ call.op \in {"checkPort", "killPort", "monitorPort", "addCustomProtectedPort"}
     /\ ~IsPort(call.port))
        => (/\ result.isError /\ result.kind = "invalid-port"
            /\ oslog = <<>>
            /\ ~call.mutated)

C3_Witness ==
    /\ call.op = "monitorPort"
    /\ call.port = PortArg(65536)
    /\ result.kind = "invalid-port"

\* C4: isProtectedPort(p) is true exactly when p is in the built-in table or in
\* the session's custom protected-port list; a successful
\* addCustomProtectedPort(p) leaves p in that list, and killPort(p, *) of the
\* full manager refuses, without query or signal, exactly while p is
\* protected by number.
C4_ProtectedIffBuiltinOrCustom ==
    /\ \A p \in ValidPorts \cup BUILTIN_PORTS \cup Range(sessionData.protectedPorts) :
          isProtectedPort(sessionData, p)
              <=> (p \in BUILTIN_PORTS \/ p \in Range(sessionData.protectedPorts))
    /\ (call.op = "addCustomProtectedPort" /\ ~result.isError)
          => call.port.value \in Range(sessionData.protectedPorts)
    /\ (call.op = "killPort" /\ call.src = "part_001" /\ IsPort(call.port))
          => ((result.kind = "protected")
                 <=> (call.port.value \in BUILTIN_PORTS \/ call.wasCustom))
    /\ (call.op = "killPort" /\ call.src = "part_001" /\ result.kind = "protected")
          => (result.isError /\ NoQuery /\ NoSignal)

C4_Witness ==
    /\ call.op = "killPort" /\ call.src = "part_001"
    /\ call.port = PortArg(3000)
    /\ call.wasCustom
    /\ result.kind = "protected"
    /\ oslog = <<>>

\* C5: whatever addProtectedPort and removeProtectedPort calls were made,
\* built-in ports among them, every built-in protected port is still
\* protected and killPort still refuses it under its built-in label.
C5_BuiltinsStay ==
    \A p \in BUILTIN_PORTS :
        /\ isProtectedPort(sessionData, p)
        /\ \A force \in BOOLEAN :
              \A run \in killPortRuns(sessionData, PortArg(p), force) :
                  /\ run.result.kind = "protected"
                  /\ run.result.label = PROTECTED_PORTS[p]
                  /\ run.oslog = <<>>

\* a built-in port was added as a custom port under another label and then
\* removed again
C5_Witness ==
    /\ call.op = "removeProtectedPort"
    /\ call.port = PortArg(3306)
    /\ call.wasCustom
    /\ 3306 \notin Range(sessionData.protectedPorts)
    /\ isProtectedPort(sessionData, 3306)

\* C6: hasCritical is true iff some process of the parsed list has a
\* lowercased name or command containing a built-in pattern, and services
\* holds exactly the original-case names of those processes, each once.
C6_Classification ==
    (call.op = "checkForCriticalProcesses" /\ call.q.ok)
        => LET processes == parseProcessInfo(call.q.stdout)
               matching == {info \in Range(processes) : CarriesPattern(info)}
           IN /\ result.hasCritical <=> (matching # {})
              /\ Range(result.services) = {info.processName : info \in matching}
              /\ \A name \in Range(result.services) :
                    Occurrences(result.services, name) = 1

\* two lines of one mixed-case process and a process matched by its command
C6_Witness ==
    /\ call.op = "checkForCriticalProcesses"
    /\ call.q.stdout = <<HEADER, LINE_MySQLd, LINE_java, LINE_MySQLd>>
    /\ result.hasCritical
    /\ result.services = << <<"M","y","S","Q","L","d">>, <<"j","a","v","a">> >>

\* words of C7: the ports the sweep sent a signal to, and the step of a port
SignalledPorts == {oslog[i].port : i \in {j \in 1..Len(oslog) : oslog[j].cmd = "kill"}}
StepsOf(port) == {call.classq[i] : i \in {j \in 1..Len(call.classq) : call.classq[j].port = port}}
ListsCritical(key) ==
    /\ key # "none"
    /\ lsofAnswer(key).ok
    /\ \E info \in Range(parseProcessInfo(lsofAnswer(key).stdout)) : CarriesPattern(info)
SweepSignalsOnlyUnprotected ==
    \A i \in 1..Len(oslog) :
        oslog[i].cmd = "kill" =>
            /\ oslog[i].signal = "TERM"
            /\ oslog[i].port \in Range(COMMON_DEV_PORTS)
            /\ ~isProtectedPort(sessionData, oslog[i].port)
            /\ \A step \in StepsOf(oslog[i].port) :
                  step.inUse /\ ~ListsCritical(step.classq)
SweepSkipsProtected ==
    \A step \in Range(call.classq) :
        (step.inUse /\ (isProtectedPort(sessionData, step.port) \/ ListsCritical(step.classq)))
            => /\ step.port \notin SignalledPorts
               /\ \E i \in 1..Len(result.lines) :
                     result.lines[i].port = step.port /\ result.lines[i].kind = "skipped"

\* C7 as stated: the sweep signals only processes on an in-use development
\* port that is protected on neither axis, skips and reports every in-use
\* development port protected on either axis, and its cleaned count is the
\* number of ports for which a kill command was issued.
C7_CountsIssued ==
    call.op = "killDevServersSelective"
        => (/\ SweepSignalsOnlyUnprotected
            /\ SweepSkipsProtected
            /\ result.killedCount = Cardinality(SignalledPorts))

\* C7 amended: as above, but the cleaned count is the number of ports whose
\* kill command succeeded; a port whose kill command failed is reported as
\* not cleaned and is not counted.
C7_CountsSucceeded ==
    call.op = "killDevServersSelective"
        => (/\ SweepSignalsOnlyUnprotected
            /\ SweepSkipsProtected
            /\ result.killedCount =
                   Cardinality({step.port : step \in {x \in Range(call.classq) : x.killOk}})
            /\ \A step \in Range(call.classq) :
                  (step.port \in SignalledPorts /\ ~step.killOk)
                      => \E i \in 1..Len(result.lines) :
                            /\ result.lines[i].port = step.port
                            /\ result.lines[i].kind = "could-not-clean")

\* 3000 is cleaned, custom-protected 3001 is in use and skipped
C7_Witness ==
    /\ call.op = "killDevServersSelective"
    /\ result.killedCount = 1
    /\ SignalledPorts = {3000}
    /\ 3001 \in Range(sessionData.protectedPorts)
    /\ \E i \in 1..Len(result.lines) :
          result.lines[i].port = 3001 /\ result.lines[i].kind = "skipped"

\* words of C8 and C9: the registered projects of the name the call gave,
\* ignoring case
Matching ==
    SelectSeq(sessionData.activeProjects,
              LAMBDA p : toLowerCase(p.name) = toLowerCase(call.name))
Signals(log) == {i \in 1..Len(log) : log[i].cmd = "kill"}

\* C8: killProjectPorts(name) fails as not found exactly when no registered
\* project has that name ignoring case; otherwise it handles the entries of
\* the first such project's port list one by one, each exactly once and in
\* order, whatever happened on the entries before; an entry whose port is
\* protected by number, or whose classification lists a critical process,
\* is reported as skipped and no signal is sent for it.
C8_EveryPortOnce ==
    call.op = "killProjectPorts"
        => /\ (result.kind = "not-found") <=> (Matching = <<>>)
           /\ Matching # <<>> =>
                LET ports == Matching[1].ports
                IN /\ ~result.isError
                   /\ result.label = Matching[1].name
                   /\ Len(call.classq) = Len(ports)
                   /\ Len(result.lines) = Len(ports)
                   /\ \A i \in 1..Len(ports) :
                         /\ call.classq[i].port = ports[i]
                         /\ result.lines[i].port = ports[i]
                         /\ (\/ isProtectedPort(sessionData, ports[i])
                             \/ ListsCritical(call.classq[i].classq))
                               => /\ result.lines[i].kind \in
                                         {"skipped-protected", "skipped-critical"}
                                  /\ Signals(call.classq[i].log) = {}

\* "app" was registered and "APP" asked for: 3000 was found critical and
\* skipped, and the processes of 3001 were killed all the same
C8_Witness ==
    /\ call.op = "killProjectPorts"
    /\ call.name = <<"A","P","P">>
    /\ Matching # <<>>
    /\ Matching[1].name = <<"a","p","p">>
    /\ Len(result.lines) = 2
    /\ result.lines[1] = [port |-> 3000, services |-> << <<"j","a","v","a">> >>,
                          kind |-> "skipped-critical"]
    /\ result.lines[2].port = 3001 /\ result.lines[2].kind = "killed"
    /\ result.killedCount = 1

\* C9: every process query and every signal of killProjectPorts(name) is on a
\* port of the matched project's port list, and when no project matches it
\* returns the not-found error having issued no command at all.
C9_OnlyProjectPorts ==
    call.op = "killProjectPorts"
        => /\ Matching = <<>> =>
                (result.isError /\ result.kind = "not-found" /\ oslog = <<>>)
           /\ Matching # <<>> =>
                \A i \in 1..Len(oslog) : oslog[i].port \in Range(Matching[1].ports)

\* two projects are registered, and the ports of "api" were killed while
\* nothing was asked about a port of "app"
C9_Witness ==
    /\ call.op = "killProjectPorts"
    /\ call.name = <<"a","p","i">>
    /\ Len(sessionData.activeProjects) = 2
    /\ \E i \in 1..2 : sessionData.activeProjects[i].ports = <<3000, 3001>>
    /\ Signals(oslog) # {}
    /\ \A i \in 1..Len(oslog) : oslog[i].port = 8080

\* C10: every successful addProtectedPort(p, l) leaves p exactly once in the
\* protected-port list with l stored as its label, in particular when p was
\* already in the list under another label.
C10_AddIdempotent ==
    [][(call' # call /\ call'.op = "addCustomProtectedPort" /\ ~result'.isError)
          => (/\ Occurrences(sessionData'.protectedPorts, call'.port.value) = 1
              /\ sessionData'.customProtectedServices[call'.port.value] = call'.service)]_vars

\* the second of two adds of one port, with another label
C10_Witness ==
    /\ call.op = "addCustomProtectedPort"
    /\ call.port = PortArg(3000)
    /\ call.wasCustom
    /\ call.oldService = "A" /\ call.service = "B"
    /\ Occurrences(sessionData.protectedPorts, 3000) = 1
    /\ sessionData.customProtectedServices[3000] = "B"

\* C11: in every state of the session document, from construction through
\* any sequence of loadSession, addProtectedPort and removeProtectedPort, the
\* ports of protectedPorts are exactly the keys of customProtectedServices.
C11_PortsAndLabelsInSync ==
    Range(sessionData.protectedPorts) = DOMAIN sessionData.customProtectedServices

\* 3000 was added to a loaded document that held 3001, and then removed
C11_Witness ==
    /\ loadpc = "done"
    /\ call.op = "removeProtectedPort"
    /\ call.port = PortArg(3000) /\ call.wasCustom
    /\ sessionData.protectedPorts = <<3001>>
    /\ DOMAIN sessionData.customProtectedServices = {3001}

\* C12: addProject on a directory that is registered replaces that entry's
\* name, ports and framework where it stands and leaves the other entries
\* and the number of projects as they were; on a directory that is not
\* registered it appends a new entry, also when the name is that of a
\* registered project.
C12_UpsertByDirectory ==
    [][call'.op = "addProject"
          => LET old == sessionData.activeProjects
                 new == sessionData'.activeProjects
                 a == call'.project
                 hits == {i \in 1..Len(old) : old[i].directory = a.directory}
                 same(p) == /\ p.name = a.name /\ p.directory = a.directory
                            /\ p.ports = a.ports /\ p.framework = a.framework
             IN IF hits # {}
                THEN /\ Len(new) = Len(old)
                     /\ \A i \in 1..Len(old) :
                           IF i \in hits THEN same(new[i]) ELSE new[i] = old[i]
                ELSE /\ Len(new) = Len(old) + 1
                     /\ SubSeq(new, 1, Len(old)) = old
                     /\ same(new[Len(new)])]_vars

\* the entry of /y was replaced by one named as the project of /x is
C12_Witness ==
    /\ call.op = "addProject"
    /\ call.existed
    /\ call.project.directory = "/y"
    /\ Len(sessionData.activeProjects) = 2
    /\ sessionData.activeProjects[1].directory = "/x"
    /\ sessionData.activeProjects[1].name = <<"a","p","p">>
    /\ sessionData.activeProjects[2].directory = "/y"
    /\ sessionData.activeProjects[2].name = <<"a","p","p">>
    /\ sessionData.activeProjects[2].ports = <<3000>>

\* words of C13 and C14: a step in which loadSession ends, having read and
\* processed the file, or not
LoadEnds == loadpc = "read" /\ loadpc' = "done"
LoadSucceeds ==
    /\ LoadEnds
    /\ loadbuf.ok /\ loadbuf.kind = "json"
    /\ hasKey(loadbuf.doc, "activeProjects")

\* C13: right after a successful loadSession, a stored project whose
\* lastActive is more than 24 hours before the load time is absent from
\* getActiveProjects, and one whose lastActive is not more than 24 hours
\* before it is present.
C13_EvictsOlderThanDay ==
    [][LoadSucceeds
          => \A p \in Range(loadbuf.doc.activeProjects) :
                /\ (now' - p.lastActive > DAY_MS)
                      => p \notin Range(getActiveProjects(sessionData'))
                /\ (now' - p.lastActive <= DAY_MS)
                      => p \in Range(getActiveProjects(sessionData'))]_vars

\* C14: when the file is absent or cannot be parsed or processed, and no
\* operation ran before loadSession ended, the document in memory after
\* loadSession has no projects and no custom protected ports, and a file
\* written by loadSession holds that document.
C14_SelfHealsToEmpty ==
    [][(LoadEnds /\ ~LoadSucceeds /\ call.op = "constructor")
          => /\ hasKey(sessionData', "activeProjects")
             /\ sessionData'.activeProjects = <<>>
             /\ sessionData'.protectedPorts = <<>>
             /\ sessionData'.customProtectedServices = EmptyMap
             /\ (file' # file => file' = [kind |-> "json", doc |-> sessionData'])]_vars

\* C15: when the write of the session file fails, addProject and
\* addCustomProtectedPort still return a success result and the document in
\* memory holds what they added.
C15_SaveFailureNotSurfaced ==
    [][(/\ call'.op \in {"addProject", "addCustomProtectedPort"}
        /\ loadpc' = loadpc
        /\ call'.outcome \notin {"none", "ok"})
          => /\ ~result'.isError
             /\ call'.op = "addCustomProtectedPort"
                   => /\ call'.port.value \in Range(sessionData'.protectedPorts)
                      /\ sessionData'.customProtectedServices[call'.port.value]
                             = call'.service
             /\ call'.op = "addProject"
                   => \E i \in 1..Len(sessionData'.activeProjects) :
                         LET p == sessionData'.activeProjects[i]
                             a == call'.project
                         IN /\ p.name = a.name /\ p.directory = a.directory
                            /\ p.ports = a.ports /\ p.framework = a.framework
                            /\ p.lastActive = now'
             /\ file' = file]_vars

\* a project was added in memory while the file kept the older document
C15_Witness ==
    /\ call.op = "addProject"
    /\ call.outcome = "write-failed"
    /\ ~result.isError
    /\ Len(sessionData.activeProjects) = 1
    /\ file.kind = "json"
    /\ file.doc.activeProjects = <<>>

C16_AccessorsReturnCopies ==
    (call.op = "callerEdits")
        => /\ sessionData.activeProjects = call.before.activeProjects
           /\ sessionData.protectedPorts = call.before.protectedPorts

\* words of C18: the statuses monitorPort observed, poll by poll
Observed == [i \in 1..Len(call.classq) |-> statusOf(lsofAnswer(call.classq[i]))]

\* C18: the status lines of monitorPort are its first observation followed
\* by exactly the observations that differ from the one before them, in
\* order; so when every observation of the call gives the same status, one
\* line is emitted.
C18_EmitsOnChangeOnly ==
    (call.op = "monitorPort" /\ IsPort(call.port))
        => LET emitting == {i \in 1..Len(Observed) :
                               i = 1 \/ Observed[i] # Observed[i - 1]}
               nth(k) == CHOOSE i \in emitting :
                             Cardinality({j \in emitting : j <= i}) = k
           IN /\ Len(Observed) >= 1
              /\ Len(oslog) = Len(Observed)
              /\ Len(result.lines) = Cardinality(emitting)
              /\ \A k \in 1..Len(result.lines) : result.lines[k] = Observed[nth(k)]
              /\ (\A i \in 1..Len(Observed) : Observed[i] = Observed[1])
                     => Len(result.lines) = 1

\* three polls found the same process on the port: one line
C18_Witness ==
    /\ call.op = "monitorPort"
    /\ call.port = PortArg(3000)
    /\ call.classq = <<"node", "node", "node">>
    /\ Len(result.lines) = 1
    /\ result.lines[1].kind = "in-use" /\ result.lines[1].pid = 101

\* words of C19 and C20: the signals of the call, in the order sent
Signalled == SelectSeq(oslog, LAMBDA e : e.cmd = "kill")

C20_OneSignalPerPid ==
    (call.op = "killPort" /\ call.src = "part_001" /\ result.kind = "killed")
        => /\ Len(Signalled) = Len(call.pids)
           /\ Len(result.perPid) = Len(call.pids)
           /\ \A i \in 1..Len(call.pids) :
                 /\ Signalled[i].pids = <<call.pids[i]>>
                 /\ Signalled[i].signal = (IF call.force THEN "KILL" ELSE "TERM")
                 /\ result.perPid[i].pid = call.pids[i]
                 /\ result.perPid[i].ok \in BOOLEAN

\* a forced kill of two PIDs: the first signal failed, the second was sent
\* and succeeded
C20_Witness ==
    /\ call.op = "killPort" /\ call.src = "part_001"
    /\ call.force
    /\ call.pids = <<101, 202>>
    /\ Signalled = <<Kill("KILL", <<101>>, 3000), Kill("KILL", <<202>>, 3000)>>
    /\ result.perPid = <<[ok |-> FALSE, pid |-> 101], [ok |-> TRUE, pid |-> 202]>>

\* what a query lists when no process is bound to the port: lsof exits
\* non-zero (execAsync throws), or prints nothing
NothingBound(q) == ~q.ok \/ q.stdout = <<>>

\* C21: checkPort(p) for a valid port returns the non-error result
\* "available" whenever no process is bound to p, including every case in
\* which the port query fails: a query failure is never reported as an error.
C21_QueryFailureMeansAvailable ==
    (/\ call.op = "checkPort" /\ IsPort(call.port)
     /\ call.classq # "none"
     /\ NothingBound(lsofAnswer(call.classq)))
        => (~result.isError /\ result.kind = "available")


\* the patterns `pkill -f` was run with, in order
Attempted == [i \in 1..Len(oslog) |-> oslog[i].pattern]

\* C22: killDevServers with a serverType other than astro, npm, vite, next
\* and all returns an error that names the valid values and attempts no
\* termination for any pattern; with all it attempts the union of every tag's
\* patterns, and with a single tag only that tag's patterns.
C22_ServerTypeSelectsPatterns ==
    call.op = "killDevServers" =>
        /\ \A i \in 1..Len(oslog) : oslog[i].cmd = "pkill"
        /\ IF call.serverType = "all"
           THEN /\ ~result.isError
                /\ Range(Attempted) =
                       UNION {Range(SERVER_PATTERNS[tag]) : tag \in Range(SERVER_TAGS)}
           ELSE IF call.serverType \in Range(SERVER_TAGS)
           THEN /\ ~result.isError
                /\ Range(Attempted) = Range(SERVER_PATTERNS[call.serverType])
           ELSE /\ result.isError
                /\ result.kind = "unknown-server-type"
                /\ oslog = <<>>


\* C23: listProtectedServices lists every port on which killPort refuses by
\* port number, the custom protected ports added with addCustomProtectedPort
\* included.
C23_ListsEveryProtectedPort ==
    call.op = "listProtectedServices" =>
        \A p \in 1..65535 :
            isProtectedPort(sessionData, p) => p \in Range(result.ports)


\* C25: listDevPorts reports each of the eight fixed development ports
\* exactly once, as available or as in use, whatever each per-port query
\* answers: empty output, parsable processes, no parsable line, or a failure.
C25_EveryDevPortReportedOnce ==
    call.op = "listDevPorts" =>
        /\ ~result.isError
        /\ \A i \in 1..Len(COMMON_DEV_PORTS) :
               Cardinality({j \in 1..Len(result.statuses) :
                               result.statuses[j].port = COMMON_DEV_PORTS[i]}) = 1
        /\ \A j \in 1..Len(result.statuses) :
               /\ result.statuses[j].port \in Range(COMMON_DEV_PORTS)
               /\ result.statuses[j].status \in {"available", "in-use"}


\* C24: after any sequence of public operations every port in a registered
\* project's ports list and every custom protected port is an integer in
\* 1..65535, and no OS query or termination is issued for a port outside that
\* range.
C24_PortsInRangeEverywhere ==
    /\ \A i \in 1..Len(sessionData.activeProjects) :
           \A port \in Range(sessionData.activeProjects[i].ports) : port \in 1..65535
    /\ \A port \in Range(sessionData.protectedPorts) : port \in 1..65535
    /\ \A i \in 1..Len(oslog) :
           oslog[i].cmd \in {"lsof -i", "lsof -ti", "kill"} => oslog[i].port \in 1..65535


\* C26: monitorPort is bounded: it never polls at or beyond 300 seconds from
\* its start, so it polls at most 60 times, whatever duration it is given, and
\* it monitors for 30 seconds when no duration is given.
C26_MonitorCappedAt300s ==
    (call.op = "monitorPort" /\ call.monitor.pc # "idle") =>
        /\ call.monitor.polls <= 60
        /\ call.monitor.lastPollAt < call.monitor.startTime + 300 * 1000
        /\ ~call.monitor.given =>
               call.monitor.endTime = call.monitor.startTime + 30 * 1000

\* every monitorPort call that started its loop returns
C26_MonitorReturns ==
    (call.monitor.pc = "polling") ~> (call.monitor.pc = "returned")


\* C27: a mutation invoked after construction and before the initial
\* loadSession has finished is not lost: when the load finishes and the last
\* operation was an addCustomProtectedPort that succeeded and whose save
\* worked, the in-memory document and the session file both hold its port.
C27_MutationDuringLoadKept ==
    [][(/\ loadpc = "read" /\ loadpc' = "done"
        /\ call.op = "addCustomProtectedPort"
        /\ ~result.isError /\ call.outcome = "ok")
          => (/\ call.port.value \in Range(sessionData'.protectedPorts)
              /\ file'.kind = "json"
              /\ call.port.value \in Range(file'.doc.protectedPorts))]_vars


\* the PIDs a successful classification query listed without any protected
\* pattern
ClearedPids(key) ==
    IF key = "none" \/ ~lsofAnswer(key).ok THEN {}
    ELSE {info.pid : info \in {x \in Range(parseProcessInfo(lsofAnswer(key).stdout)) :
                                 ~CarriesPattern(x)}}

\* C28: killPort of the full manager sends a termination signal to a PID only
\* if, within the same call, a successful classification query covered that
\* PID and found no protected pattern; a failed classification query, or a
\* listing that differs from the PID query's, leads to no signal to an
\* unclassified or critical process.
C28_SignalsOnlyClassifiedPids ==
    (call.op = "killPort" /\ call.src = "part_001") =>
        \A i \in 1..Len(oslog) :
            oslog[i].cmd = "kill" =>
                \A pid \in Range(oslog[i].pids) : pid \in ClearedPids(call.classq)


\* the patterns of each server type, whatever the session holds
PatternsOfType(serverType) ==
    CASE serverType = "astro" -> {"astro dev", "astro preview"}
      [] serverType = "npm" -> {"npm run dev", "npm start", "npm run serve"}
      [] serverType = "vite" -> {"vite", "vite dev", "vite serve"}
      [] serverType = "next" -> {"next dev", "next start"}
      [] serverType = "all" ->
            {"astro dev", "astro preview", "npm run dev", "npm start",
             "npm run serve", "vite", "vite dev", "vite serve", "next dev",
             "next start"}
      [] OTHER -> {}

\* C29: killDevServers does not consult protection state: for a given
\* serverType the set of patterns for which termination is attempted is the
\* same in every session state, with or without custom protected ports and
\* registered projects.
C29_SweepIgnoresSession ==
    call.op = "killDevServers" =>
        /\ Range(Attempted) = PatternsOfType(call.serverType)
        /\ \A i \in 1..Len(oslog) : oslog[i].cmd = "pkill"

\* every vite pattern is attempted in a session whose custom protected ports
\* include the vite port 3000
C29_Witness ==
    /\ call.op = "killDevServers" /\ call.serverType = "vite"
    /\ 3000 \in Range(sessionData.protectedPorts)
    /\ Attempted = <<"vite", "vite dev", "vite serve">>


\* the operations that only report
ReadOnlyOps ==
    {"checkPort", "listDevPorts", "monitorPort", "listProtectedServices",
     "listActiveProjects"}

\* C30: checkPort, listDevPorts, monitorPort, listProtectedServices and
\* listActiveProjects never send a termination signal and leave the session
\* document and the session file unchanged.
C30_ReadOnlyOpsChangeNothing ==
    [][call'.op \in ReadOnlyOps =>
          (/\ sessionData' = sessionData
           /\ file' = file
           /\ \A i \in 1..Len(oslog') : oslog'[i].cmd \notin {"kill", "pkill"})]_vars

\* the projects were listed in a session that holds a project and a custom
\* protected port, and the file still holds that session
C30_Witness ==
    /\ call.op = "listActiveProjects"
    /\ result.kind = "projects" /\ Len(result.lines) = 1
    /\ 3000 \in Range(sessionData.protectedPorts)
    /\ file = [kind |-> "json", doc |-> sessionData]


====
